---- MODULE Spec2Model ----
(***************************************************************************)
(* Model of the Skald Node.js client (src/src/index.ts, class Skald at     *)
(* line 482): a client call from the request it builds to its settlement,  *)
(* alone (Spec, SpecRequest) and interleaved with another (SpecPair).      *)
(* The non-streaming methods are one fetch and one response; the two       *)
(* streaming methods are async generators whose body runs only while the   *)
(* consumer pulls, reading the response body chunk by chunk, decoding      *)
(* UTF-8 incrementally, splitting the text on newlines and yielding one    *)
(* event per parsed `data: ` line.                                         *)
(*                                                                         *)
(* Text is a sequence of code points, a chunk a sequence of bytes.         *)
(***************************************************************************)
EXTENDS Integers, Sequences, FiniteSets, TLC

(***************************************************************************)
(* Bounds of the model.                                                    *)
(***************************************************************************)
\* newline-terminated lines of a response body
MaxLines == 2
\* bytes of a chunk that is not the whole rest of the body
MaxChunk == 8

(***************************************************************************)
(* Characters the decoder looks at.                                        *)
(***************************************************************************)
\* '\n', the separator of buffer.split('\n')
NL == 10
\* U+FFFD, what TextDecoder emits for a malformed sequence
Replacement == 65533
\* 'data: ', the prefix of line.startsWith('data: ')
DataPrefix == <<100, 97, 116, 97, 58, 32>>
\* the number of characters line.slice(6) drops
PrefixLen == 6
\* 'type' and 'done', of event.type === 'done'
TypeKey == <<116, 121, 112, 101>>
DoneTag == <<100, 111, 110, 101>>
NullLit == <<110, 117, 108, 108>>
TrueLit == <<116, 114, 117, 101>>
FalseLit == <<102, 97, 108, 115, 101>>

(***************************************************************************)
(* The lines response bodies are made of (bytes, without the newline).     *)
(***************************************************************************)
\* data: {"type":"token","content":"é"}      (é is the two bytes 195 169)
TokenLine == <<100, 97, 116, 97, 58, 32, 123, 34, 116, 121, 112, 101, 34, 58, 34, 116, 111, 107, 101, 110, 34, 44, 34, 99, 111, 110, 116, 101, 110, 116, 34, 58, 34, 195, 169, 34, 125>>
\* data: {"type":"done"}
DoneLine == <<100, 97, 116, 97, 58, 32, 123, 34, 116, 121, 112, 101, 34, 58, 34, 100, 111, 110, 101, 34, 125>>
\* data: bad
BadLine == <<100, 97, 116, 97, 58, 32, 98, 97, 100>>
\* data: null
NullLine == <<100, 97, 116, 97, 58, 32, 110, 117, 108, 108>>
\* : ping
PingLine == <<58, 32, 112, 105, 110, 103>>
\* the empty line
BlankLine == <<>>
\* event: {"type":"done"}      (another field, with JSON from its 7th character)
EventLine == <<101, 118, 101, 110, 116, 58, 32, 123, 34, 116, 121, 112, 101, 34, 58, 34, 100, 111, 110, 101, 34, 125>>

LineSet == {TokenLine, DoneLine, BadLine, NullLine, PingLine, BlankLine, EventLine}
\* what may follow the last newline of a body: nothing, or an unterminated line
TailSet == {<<>>, DoneLine}

RECURSIVE JoinLines(_)
JoinLines(ls) == IF ls = <<>> THEN <<>> ELSE Head(ls) \o <<NL>> \o JoinLines(Tail(ls))

LineSeqs == UNION {[1..n -> LineSet] : n \in 0..MaxLines}
\* the response bodies of the model
Streams == {JoinLines(ls) \o t : ls \in LineSeqs, t \in TailSet}

(***************************************************************************)
(* TextDecoder (new TextDecoder() at line 918): the UTF-8 decoder of the   *)
(* WHATWG Encoding standard, one byte at a time.  Its state is the code    *)
(* point being assembled, the continuation bytes seen and needed, and the  *)
(* range the next continuation byte must lie in.                           *)
(***************************************************************************)
DecoderInit == [cp |-> 0, seen |-> 0, needed |-> 0, lo |-> 128, hi |-> 191]

\* a byte met while no sequence is pending
LeadByte(b) ==
  IF b <= 127 THEN [st |-> DecoderInit, out |-> <<b>>]
  ELSE IF b >= 194 /\ b <= 223
    THEN [st |-> [cp |-> b % 32, seen |-> 0, needed |-> 1, lo |-> 128, hi |-> 191], out |-> <<>>]
  ELSE IF b >= 224 /\ b <= 239
    THEN [st |-> [cp |-> b % 16, seen |-> 0, needed |-> 2,
                  lo |-> IF b = 224 THEN 160 ELSE 128,
                  hi |-> IF b = 237 THEN 159 ELSE 191], out |-> <<>>]
  ELSE IF b >= 240 /\ b <= 244
    THEN [st |-> [cp |-> b % 8, seen |-> 0, needed |-> 3,
                  lo |-> IF b = 240 THEN 144 ELSE 128,
                  hi |-> IF b = 244 THEN 143 ELSE 191], out |-> <<>>]
  ELSE [st |-> DecoderInit, out |-> <<Replacement>>]

DecodeByte(st, b) ==
  IF st.needed = 0 THEN LeadByte(b)
  ELSE IF b < st.lo \/ b > st.hi
    \* malformed: U+FFFD for the pending sequence, and the byte is read again
    THEN [st |-> LeadByte(b).st, out |-> <<Replacement>> \o LeadByte(b).out]
  ELSE IF st.seen + 1 = st.needed
    THEN [st |-> DecoderInit, out |-> <<st.cp * 64 + (b % 64)>>]
  ELSE [st |-> [cp |-> st.cp * 64 + (b % 64), seen |-> st.seen + 1,
                needed |-> st.needed, lo |-> 128, hi |-> 191], out |-> <<>>]

\* the bytes lo..hi in order, halving the range; the decoding is sequential:
\* the left half is decoded first and the right half starts in its end state
RECURSIVE DecodeRange(_, _, _, _)
DecodeRange(st, bytes, lo, hi) ==
  IF lo > hi THEN [chars |-> <<>>, st |-> st]
  \* a run of ASCII bytes with no sequence pending decodes to itself
  ELSE IF st.needed = 0 /\ \A i \in lo..hi : bytes[i] <= 127
    THEN [chars |-> SubSeq(bytes, lo, hi), st |-> st]
  ELSE IF lo = hi
    THEN LET r == DecodeByte(st, bytes[lo]) IN [chars |-> r.out, st |-> r.st]
  ELSE LET mid == (lo + hi) \div 2
           l == DecodeRange(st, bytes, lo, mid)
           r == DecodeRange(l.st, bytes, mid + 1, hi)
       IN [chars |-> l.chars \o r.chars, st |-> r.st]

\* decode(value) without the stream option: every call starts afresh and
\* flushes, so a sequence cut by the end of the chunk becomes U+FFFD
DecodeFlush(st, bytes) ==
  LET r == DecodeRange(DecoderInit, bytes, 1, Len(bytes))
  IN [chars |-> IF r.st.needed = 0 THEN r.chars ELSE r.chars \o <<Replacement>>,
      st |-> DecoderInit]

\* decoder.decode(value, { stream: true }): the pending sequence is carried over
DecodeChunk(st, bytes) == DecodeRange(st, bytes, 1, Len(bytes))

(***************************************************************************)
(* buffer.split('\n'), lines.pop() || '', startsWith and slice.            *)
(***************************************************************************)
RECURSIVE Split(_)
Split(s) ==
  LET nls == {i \in 1..Len(s) : s[i] = NL}
  IN IF nls = {} THEN <<s>>
     ELSE LET i == CHOOSE k \in nls : \A j \in nls : k <= j
          IN <<SubSeq(s, 1, i - 1)>> \o Split(SubSeq(s, i + 1, Len(s)))

\* a loop over every segment, the last fragment too
FrontAll(segs) == segs

\* the lines left in `lines` after lines.pop()
Front(segs) == SubSeq(segs, 1, Len(segs) - 1)

\* a decoder that keeps nothing between reads
RetainNothing(segs) == <<>>

\* lines.shift() in the place of lines.pop(): the first line is kept
RetainFirst(segs) == segs[1]

\* buffer = lines.pop() || '': the fragment after the last newline
Retain(segs) == segs[Len(segs)]

StartsWith(s, p) == Len(s) >= Len(p) /\ SubSeq(s, 1, Len(p)) = p

\* no look at the prefix: every line long enough to be sliced
NoPrefixCheck(line) == Len(line) >= PrefixLen

\* line.startsWith('data: ')
StartsWithData(line) == StartsWith(line, DataPrefix)

\* line.slice(6)
Slice(line) == SubSeq(line, PrefixLen + 1, Len(line))

(***************************************************************************)
(* JSON.parse(data) (line 935), on the grammar the bodies of the model     *)
(* use: objects, arrays, strings without escapes, null, true and false,    *)
(* with whitespace between tokens.  A value is [t: its kind, s: the        *)
(* characters of a string, kv: the members of an object in source order,   *)
(* or the elements of an array, each under the empty name].                *)
(***************************************************************************)
JVal(t, s) == [t |-> t, s |-> s, kv |-> <<>>]
JNull == JVal("null", <<>>)
JUndefined == JVal("undefined", <<>>)
JObj(kv) == [t |-> "object", s |-> <<>>, kv |-> kv]
JArr(kv) == [t |-> "array", s |-> <<>>, kv |-> kv]
ParseFail == [ok |-> FALSE, v |-> JUndefined, i |-> 0]

IsWs(c) == c \in {32, 9, 10, 13}

RECURSIVE SkipWs(_, _)
SkipWs(s, i) == IF i <= Len(s) /\ IsWs(s[i]) THEN SkipWs(s, i + 1) ELSE i

ParseLiteral(s, i, lit, v) ==
  IF Len(s) >= i + Len(lit) - 1 /\ SubSeq(s, i, i + Len(lit) - 1) = lit
  THEN [ok |-> TRUE, v |-> v, i |-> i + Len(lit)]
  ELSE ParseFail

\* s[i] is the opening quote
ParseString(s, i) ==
  LET closers == {j \in (i + 1)..Len(s) : s[j] = 34}
  IN IF closers = {} THEN ParseFail
     ELSE LET j == CHOOSE x \in closers : \A y \in closers : x <= y
          IN IF \A k \in (i + 1)..(j - 1) : s[k] >= 32 /\ s[k] # 92
             THEN [ok |-> TRUE, v |-> JVal("string", SubSeq(s, i + 1, j - 1)), i |-> j + 1]
             ELSE ParseFail

RECURSIVE ParseValue(_, _), ParseMembers(_, _, _), ParseElements(_, _, _)
ParseValue(s, i0) ==
  LET i == SkipWs(s, i0)
  IN IF i > Len(s) THEN ParseFail
     ELSE IF s[i] = 34 THEN ParseString(s, i)
     ELSE IF s[i] = 110 THEN ParseLiteral(s, i, NullLit, JNull)
     ELSE IF s[i] = 116 THEN ParseLiteral(s, i, TrueLit, JVal("boolean", TrueLit))
     ELSE IF s[i] = 102 THEN ParseLiteral(s, i, FalseLit, JVal("boolean", FalseLit))
     ELSE IF s[i] = 123
       THEN LET j == SkipWs(s, i + 1)
            IN IF j <= Len(s) /\ s[j] = 125
               THEN [ok |-> TRUE, v |-> JObj(<<>>), i |-> j + 1]
               ELSE ParseMembers(s, j, <<>>)
     ELSE IF s[i] = 91
       THEN LET j == SkipWs(s, i + 1)
            IN IF j <= Len(s) /\ s[j] = 93
               THEN [ok |-> TRUE, v |-> JArr(<<>>), i |-> j + 1]
               ELSE ParseElements(s, j, <<>>)
     ELSE ParseFail

\* the members of an object from its next key, at s[i], on
ParseMembers(s, i, acc) ==
  IF i > Len(s) \/ s[i] # 34 THEN ParseFail
  ELSE LET k == ParseString(s, i)
           c == SkipWs(s, k.i)
       IN IF ~k.ok \/ c > Len(s) \/ s[c] # 58 THEN ParseFail
          ELSE LET v == ParseValue(s, c + 1)
                   e == SkipWs(s, v.i)
                   kv == Append(acc, [k |-> k.v.s, v |-> v.v])
               IN IF ~v.ok \/ e > Len(s) THEN ParseFail
                  ELSE IF s[e] = 125 THEN [ok |-> TRUE, v |-> JObj(kv), i |-> e + 1]
                  ELSE IF s[e] = 44 THEN ParseMembers(s, SkipWs(s, e + 1), kv)
                  ELSE ParseFail

\* the elements of an array from its next element, at s[i], on
ParseElements(s, i, acc) ==
  LET v == ParseValue(s, i)
      e == SkipWs(s, v.i)
      kv == Append(acc, [k |-> <<>>, v |-> v.v])
  IN IF ~v.ok \/ e > Len(s) THEN ParseFail
     ELSE IF s[e] = 93 THEN [ok |-> TRUE, v |-> JArr(kv), i |-> e + 1]
     ELSE IF s[e] = 44 THEN ParseElements(s, SkipWs(s, e + 1), kv)
     ELSE ParseFail

\* JSON.parse: a value and nothing but whitespace after it, or a SyntaxError
JSONParse(text) ==
  LET r == ParseValue(text, 1)
  IN IF r.ok /\ SkipWs(text, r.i) > Len(text)
     THEN [ok |-> TRUE, v |-> r.v]
     ELSE [ok |-> FALSE, v |-> JUndefined]

\* event.type: the last member named type; undefined when there is none
TypeOf(ev) ==
  LET idx == {n \in 1..Len(ev.kv) : ev.kv[n].k = TypeKey}
  IN IF idx = {} THEN JUndefined
     ELSE ev.kv[CHOOSE n \in idx : \A m \in idx : m <= n].v

\* reading a property of null throws a TypeError
TypeThrows(ev) == ev.t = "null"

\* a check that no event passes
NotDone(ev) == FALSE

\* event.type === 'done' (line 939)
IsDone(ev) == TypeOf(ev) = JVal("string", DoneTag)

(***************************************************************************)
(* for (const line of lines) { ... } (lines 931-947), run from the lines   *)
(* still to be visited up to the next yield: the event yielded and the     *)
(* lines after it, or found = FALSE when the lines run out.                *)
(***************************************************************************)
NoYield == [found |-> FALSE, ev |-> JUndefined, rest |-> <<>>]

RECURSIVE NextYield(_)

\* a catch that leaves the loop
OnCatchBreak(rest) == NoYield

\* catch (e) { } (lines 942-944): the loop goes on with the next line
OnCatch(rest) == NextYield(rest)

NextYield(ls) ==
  IF ls = <<>> THEN NoYield
  ELSE IF StartsWithData(Head(ls))
    THEN LET r == JSONParse(Slice(Head(ls)))
         IN IF r.ok THEN [found |-> TRUE, ev |-> r.v, rest |-> Tail(ls)]
            ELSE OnCatch(Tail(ls))
  ELSE NextYield(Tail(ls))

(***************************************************************************)
(* Strings of the requests: text is a sequence of code points.             *)
(***************************************************************************)
\* '/', what the constructor strips and what separates path segments
Slash == 47
\* '=', '&' and '?', of a query string
Equals == 61
Amp == 38
Question == 63
\* 'https://api.useskald.com', the default of the constructor's baseUrl
DefaultBaseUrl == <<104, 116, 116, 112, 115, 58, 47, 47, 97, 112, 105, 46, 117, 115, 101, 115, 107, 97, 108, 100, 46, 99, 111, 109>>
\* 'https://', what every base URL of the model starts with
Scheme == <<104, 116, 116, 112, 115, 58, 47, 47>>
\* the paths of the endpoints
MemoPath == <<47, 97, 112, 105, 47, 118, 49, 47, 109, 101, 109, 111>>
SearchPath == <<47, 97, 112, 105, 47, 118, 49, 47, 115, 101, 97, 114, 99, 104>>
ChatPath == <<47, 97, 112, 105, 47, 118, 49, 47, 99, 104, 97, 116>>
GeneratePath == <<47, 97, 112, 105, 47, 118, 49, 47, 103, 101, 110, 101, 114, 97, 116, 101>>
\* 'memo_uuid' and 'reference_id', the two values of IdType; 'id_type'
MemoUuid == <<109, 101, 109, 111, 95, 117, 117, 105, 100>>
ReferenceId == <<114, 101, 102, 101, 114, 101, 110, 99, 101, 95, 105, 100>>
IdTypeKey == <<105, 100, 95, 116, 121, 112, 101>>
\* 'page', 'page_size', 'metadata' and 'stream'
PageKey == <<112, 97, 103, 101>>
PageSizeKey == <<112, 97, 103, 101, 95, 115, 105, 122, 101>>
MetadataKey == <<109, 101, 116, 97, 100, 97, 116, 97>>
StreamKey == <<115, 116, 114, 101, 97, 109>>

\* the concatenation of the strings of a sequence, sep between them
RECURSIVE Join(_, _)
Join(ss, sep) ==
  IF ss = <<>> THEN <<>>
  ELSE IF Len(ss) = 1 THEN ss[1]
  ELSE ss[1] \o sep \o Join(Tail(ss), sep)

\* s.split(sep) for a one-character separator
SplitOn(s, sep) ==
  LET cuts == {i \in 1..Len(s) : s[i] = sep}
      n == Cardinality(cuts)
      Cut(k) == IF k = 0 THEN 0
                ELSE IF k = n + 1 THEN Len(s) + 1
                ELSE CHOOSE i \in cuts : Cardinality({j \in cuts : j < i}) = k - 1
  IN [k \in 1..(n + 1) |-> SubSeq(s, Cut(k - 1) + 1, Cut(k) - 1)]

\* baseUrl.replace(/\/$/, '') (line 488): one '/' at the end is removed
StripTrailingSlash(s) ==
  IF Len(s) > 0 /\ s[Len(s)] = Slash THEN SubSeq(s, 1, Len(s) - 1) ELSE s

(***************************************************************************)
(* Percent-encoding.                                                       *)
(***************************************************************************)
Alnum == (48..57) \cup (65..90) \cup (97..122)
\* the characters encodeURIComponent leaves alone: A-Z a-z 0-9 - _ . ! ~ * ' ( )
UriUnreserved == Alnum \cup {45, 95, 46, 33, 126, 42, 39, 40, 41}
\* the characters the serializer of URLSearchParams leaves alone: A-Z a-z 0-9 * - . _
FormSafe == Alnum \cup {42, 45, 46, 95}
\* the characters the URL parser leaves alone in a path: all but controls,
\* space, " # < > ? ` { } and what is not ASCII
PathSafe == (33..126) \ {34, 35, 60, 62, 63, 96, 123, 125}

\* the bytes of the UTF-8 encoding of a code point of the basic plane
Utf8(c) ==
  IF c < 128 THEN <<c>>
  ELSE IF c < 2048 THEN <<192 + (c \div 64), 128 + (c % 64)>>
  ELSE <<224 + (c \div 4096), 128 + ((c \div 64) % 64), 128 + (c % 64)>>

HexDigit(n) == IF n < 10 THEN 48 + n ELSE 55 + n

\* %XX, in upper case, for each byte
RECURSIVE PercentBytes(_)
PercentBytes(bs) ==
  IF bs = <<>> THEN <<>>
  ELSE <<37, HexDigit(Head(bs) \div 16), HexDigit(Head(bs) % 16)>> \o PercentBytes(Tail(bs))

\* every character that is not safe becomes the %XX of its UTF-8 bytes
PercentEncode(s, safe) ==
  Join([i \in 1..Len(s) |->
          IF s[i] \in safe THEN <<s[i]>> ELSE PercentBytes(Utf8(s[i]))], <<>>)

\* encodeURIComponent(memoId) (line 561)
EncodeURIComponent(s) == PercentEncode(s, UriUnreserved)

RECURSIVE FormEncode(_)
\* the application/x-www-form-urlencoded serializer: a space becomes '+'
FormEncode(s) ==
  IF s = <<>> THEN <<>>
  ELSE (IF Head(s) = 32 THEN <<43>>
        ELSE IF Head(s) \in FormSafe THEN <<Head(s)>>
        ELSE PercentBytes(Utf8(Head(s))))
       \o FormEncode(Tail(s))

(***************************************************************************)
(* new URL(...), url.searchParams.set(...) and url.toString() (lines       *)
(* 561-566), on the URL strings the methods build: 'https://', a host, a   *)
(* path.  They hold no '?' and no '#': encodeURIComponent leaves none in   *)
(* the id and the base URLs of the model have none.  A URL is [host, path: *)
(* its segments, query: its name-value pairs].                             *)
(***************************************************************************)
\* '.', '%2e' and '%2E': the segments the URL parser reads as '.'
SingleDots == {<<46>>, <<37, 50, 101>>, <<37, 50, 69>>}
\* the segments the URL parser reads as '..'
DoubleDots == {a \o b : a \in SingleDots, b \in SingleDots}

\* the path state of the URL parser: '..' removes the segment before it, '.'
\* is dropped, and either leaves an empty segment when it is the last
RECURSIVE NormalizePath(_, _)
NormalizePath(segs, path) ==
  IF segs = <<>> THEN path
  ELSE LET seg == Head(segs)
           last == Len(segs) = 1
           shorter == IF path = <<>> THEN path ELSE SubSeq(path, 1, Len(path) - 1)
       IN IF seg \in DoubleDots
          THEN NormalizePath(Tail(segs),
                 IF last THEN Append(shorter, <<>>) ELSE shorter)
          ELSE IF seg \in SingleDots
          THEN NormalizePath(Tail(segs), IF last THEN Append(path, <<>>) ELSE path)
          ELSE NormalizePath(Tail(segs), Append(path, PercentEncode(seg, PathSafe)))

\* new URL(s): the host runs to the first '/', the rest is the path
ParseURL(s) ==
  LET rest == SubSeq(s, Len(Scheme) + 1, Len(s))
      slashes == {i \in 1..Len(rest) : rest[i] = Slash}
      first == IF slashes = {} THEN Len(rest) + 1
               ELSE CHOOSE i \in slashes : \A j \in slashes : i <= j
  IN [host |-> SubSeq(rest, 1, first - 1),
      path |-> NormalizePath(SplitOn(SubSeq(rest, first + 1, Len(rest)), Slash), <<>>),
      query |-> <<>>]

\* url.searchParams.set(name, value): the first pair of that name gets the
\* value and the others go; with no such pair, one is appended
SearchParamsSet(url, name, value) ==
  LET q == url.query
      hits == {i \in 1..Len(q) : q[i].k = name}
      first == CHOOSE i \in hits : \A j \in hits : i <= j
      Keep(i) == i \notin hits \/ i = first
      kept == {i \in 1..Len(q) : Keep(i)}
      Nth(n) == CHOOSE i \in kept : Cardinality({j \in kept : j < i}) = n - 1
  IN [url EXCEPT !.query =
        IF hits = {} THEN Append(q, [k |-> name, v |-> value])
        ELSE [n \in 1..Cardinality(kept) |->
                IF Nth(n) = first THEN [k |-> name, v |-> value] ELSE q[Nth(n)]]]

\* url.toString(): the pairs of the query are name=value, form-encoded
URLToString(url) ==
  LET QueryPair(p) == FormEncode(p.k) \o <<Equals>> \o FormEncode(p.v)
  IN
  Scheme \o url.host \o <<Slash>> \o Join(url.path, <<Slash>>)
  \o (IF url.query = <<>> THEN <<>>
      ELSE <<Question>> \o Join([i \in 1..Len(url.query) |-> QueryPair(url.query[i])], <<Amp>>))

(***************************************************************************)
(* The values of JavaScript the methods handle, as JSON.parse gives them,  *)
(* and numbers: [t: "number", s: <<n>>].                                   *)
(***************************************************************************)
JStr(s) == JVal("string", s)
JNum(n) == JVal("number", <<n>>)
JTrue == JVal("boolean", TrueLit)
JFalse == JVal("boolean", FalseLit)
EmptyObject == JObj(<<>>)

\* o[name]: undefined when o has no such member
Get(o, name) ==
  LET idx == {n \in 1..Len(o.kv) : o.kv[n].k = name}
  IN IF idx = {} THEN JUndefined ELSE o.kv[CHOOSE n \in idx : TRUE].v

\* o[name] = v: a member keeps its place, a new one goes last
SetMember(o, name, v) ==
  LET idx == {n \in 1..Len(o.kv) : o.kv[n].k = name}
  IN JObj(IF idx = {} THEN Append(o.kv, [k |-> name, v |-> v])
          ELSE [n \in 1..Len(o.kv) |-> IF n \in idx THEN [k |-> name, v |-> v] ELSE o.kv[n]])

\* the conversion to boolean of `if (x)` and `x || y`
Truthy(v) ==
  CASE v.t = "undefined" -> FALSE
    [] v.t = "null" -> FALSE
    [] v.t = "boolean" -> v.s = TrueLit
    [] v.t = "number" -> v.s[1] # 0
    [] v.t = "string" -> v.s # <<>>
    [] OTHER -> TRUE

RECURSIVE Digits(_)
Digits(n) == IF n < 10 THEN <<48 + n>> ELSE Digits(n \div 10) \o <<48 + (n % 10)>>
\* Number.prototype.toString() of an integer
NumberToString(n) == IF n < 0 THEN <<45>> \o Digits(0 - n) ELSE Digits(n)

\* JSON.stringify of a value: a member whose value is undefined is left out,
\* an element that is undefined is written null.  The strings of the model
\* need no escape.
RECURSIVE Stringify(_), StringifyMembers(_), StringifyElements(_)
Stringify(v) ==
  CASE v.t = "null" -> NullLit
    [] v.t = "boolean" -> v.s
    [] v.t = "number" -> NumberToString(v.s[1])
    [] v.t = "string" -> <<34>> \o v.s \o <<34>>
    [] v.t = "array" -> <<91>> \o StringifyElements(v.kv) \o <<93>>
    [] OTHER -> <<123>> \o StringifyMembers(v.kv) \o <<125>>

StringifyMembers(kv) ==
  LET shown == SelectSeq(kv, LAMBDA m : m.v.t # "undefined")
  IN IF shown = <<>> THEN <<>>
     ELSE LET m == Head(shown)
              one == <<34>> \o m.k \o <<34, 58>> \o Stringify(m.v)
          IN IF Len(shown) = 1 THEN one
             ELSE one \o <<44>> \o StringifyMembers(Tail(shown))

StringifyElements(kv) ==
  IF kv = <<>> THEN <<>>
  ELSE LET one == IF Head(kv).v.t = "undefined" THEN NullLit ELSE Stringify(Head(kv).v)
       IN IF Len(kv) = 1 THEN one ELSE one \o <<44>> \o StringifyElements(Tail(kv))

(***************************************************************************)
(* The methods, their arguments and the responses of the server.           *)
(***************************************************************************)
Plain == {"createMemo", "getMemo", "listMemos", "updateMemo", "deleteMemo",
          "search", "chat", "generateDoc"}
Streamed == {"streamedChat", "streamedGenerateDoc"}
Methods == Plain \cup Streamed
\* the methods that take a memo id and an idType
IdMethods == {"getMemo", "updateMemo", "deleteMemo"}

\* the idTypes of the model: the two of IdType, 'uuid' and ''
IdTypeInputs == {MemoUuid, ReferenceId, <<117, 117, 105, 100>>, <<>>}
\* the memo ids of the model: 'm-1', 'ref/1', 'é?', '..', '.' and ''
MemoIdInputs == {<<109, 45, 49>>, <<114, 101, 102, 47, 49>>, <<233, 63>>, <<46, 46>>, <<46>>, <<>>}

Member(name, v) == [k |-> name, v |-> v]
\* { title: 'T', content: 'c' } and the metadata { k: 'v' }
TitleAndContent == <<Member(<<116, 105, 116, 108, 101>>, JStr(<<84>>)), Member(<<99, 111, 110, 116, 101, 110, 116>>, JStr(<<99>>))>>
SomeMetadata == JObj(<<Member(<<107>>, JStr(<<118>>))>>)
\* the memo payloads of the model: metadata left out, undefined, {} and { k: 'v' }
MemoInputs ==
  {JObj(TitleAndContent),
   JObj(<<Member(MetadataKey, JUndefined)>> \o TitleAndContent),
   JObj(TitleAndContent \o <<Member(MetadataKey, EmptyObject)>>),
   JObj(<<Member(MetadataKey, SomeMetadata)>> \o TitleAndContent)}
\* the updates of the model: {} and { title: 'T' }
UpdateInputs == {EmptyObject, JObj(<<Member(<<116, 105, 116, 108, 101>>, JStr(<<84>>))>>)}
\* the parameters of listMemos: { page, page_size }, the page undefined (the
\* caller gave none), 0, 2 or -1 and the page size undefined, 0 or 50
ListInputs ==
  {JObj(<<Member(PageKey, p), Member(PageSizeKey, s)>>) :
     p \in {JUndefined, JNum(0), JNum(2), JNum(-1)}, s \in {JUndefined, JNum(0), JNum(50)}}
\* { query: 'q', search_method: 'title_contains' }
SearchInputs ==
  {JObj(<<Member(<<113, 117, 101, 114, 121>>, JStr(<<113>>)), Member(<<115, 101, 97, 114, 99, 104, 95, 109, 101, 116, 104, 111, 100>>, JStr(<<116, 105, 116, 108, 101, 95, 99, 111, 110, 116, 97, 105, 110, 115>>))>>)}
\* the parameters of chat and streamedChat: { query: 'q' }, alone and with a
\* stream member of either value, before it and after it
QueryOnly == JObj(<<Member(<<113, 117, 101, 114, 121>>, JStr(<<113>>))>>)
ChatInputs ==
  {QueryOnly,
   JObj(<<Member(<<113, 117, 101, 114, 121>>, JStr(<<113>>)), Member(StreamKey, JTrue)>>),
   JObj(<<Member(StreamKey, JFalse), Member(<<113, 117, 101, 114, 121>>, JStr(<<113>>))>>)}
\* the parameters of generateDoc and streamedGenerateDoc
PromptOnly == JObj(<<Member(<<112, 114, 111, 109, 112, 116>>, JStr(<<112>>))>>)
GenerateInputs ==
  {PromptOnly,
   JObj(<<Member(<<112, 114, 111, 109, 112, 116>>, JStr(<<112>>)), Member(StreamKey, JFalse)>>),
   JObj(<<Member(StreamKey, JTrue), Member(<<112, 114, 111, 109, 112, 116>>, JStr(<<112>>))>>)}

NoArgs == [idType |-> <<>>, memoId |-> <<>>, data |-> JUndefined]
Params(d) == [idType |-> <<>>, memoId |-> <<>>, data |-> d]
\* the arguments a call of m may get
ArgsOf(m) ==
  CASE m \in IdMethods ->
         {[idType |-> t, memoId |-> i, data |-> d] :
            t \in IdTypeInputs, i \in MemoIdInputs,
            d \in IF m = "updateMemo" THEN UpdateInputs ELSE {JUndefined}}
    [] m = "createMemo" -> {Params(d) : d \in MemoInputs}
    [] m = "listMemos" -> {Params(d) : d \in ListInputs}
    [] m = "search" -> {Params(d) : d \in SearchInputs}
    [] m \in {"chat", "streamedChat"} -> {Params(d) : d \in ChatInputs}
    [] OTHER -> {Params(d) : d \in GenerateInputs}
\* the arguments of the streaming calls whose decoding is followed: the
\* request has no part in the decoding
PlainArgsOf(m) ==
  IF m = "streamedChat" THEN {Params(QueryOnly)} ELSE {Params(PromptOnly)}

\* the base URLs given to the constructor: the default, and 'https://h'
\* with a path and with one and two slashes at its end
BaseUrlInputs ==
  {DefaultBaseUrl, <<104, 116, 116, 112, 115, 58, 47, 47, 104, 47>>, <<104, 116, 116, 112, 115, 58, 47, 47, 104, 47, 118, 50>>, <<104, 116, 116, 112, 115, 58, 47, 47, 104, 47, 47>>}

\* a check that lets every idType through
AnyIdType(t) == TRUE

\* the negation of idType !== 'memo_uuid' && idType !== 'reference_id' (line 557)
ValidIdType(t) == t = MemoUuid \/ t = ReferenceId

(***************************************************************************)
(* The request a method hands to fetch: [verb, url, hasBody, body].        *)
(***************************************************************************)
NoRequest == [verb |-> "-", url |-> <<>>, hasBody |-> FALSE, body |-> <<>>]
Request(verb, url) == [verb |-> verb, url |-> url, hasBody |-> FALSE, body |-> <<>>]
RequestWith(verb, url, v) ==
  [verb |-> verb, url |-> url, hasBody |-> TRUE, body |-> Stringify(v)]

\* a default that replaces the caller's metadata
AlwaysEmpty(v) == EmptyObject

\* memoData.metadata || {} (line 519)
OrEmpty(v) == IF Truthy(v) THEN v ELSE EmptyObject

\* memoData.metadata = memoData.metadata || {} (line 519), on the caller's object
WithMetadata(memoData) ==
  SetMember(memoData, MetadataKey, OrEmpty(Get(memoData, MetadataKey)))

\* a query parameter set for every idType
AlwaysIdType(t) == TRUE

\* idType !== 'memo_uuid' (line 562)
NotDefaultIdType(t) == t # MemoUuid

\* lines 561-566: the URL of the memo, and id_type when it is not the default
MemoUrl(base, a) ==
  LET url == ParseURL(base \o MemoPath \o <<Slash>> \o EncodeURIComponent(a.memoId))
  IN URLToString(IF NotDefaultIdType(a.idType)
                 THEN SearchParamsSet(url, IdTypeKey, a.idType)
                 ELSE url)

\* if (params.page) (lines 606, 609)
Supplied(v) == Truthy(v)

\* lines 605-613: the URL of the list, with page and page_size
ListUrl(base, params) ==
  LET url == ParseURL(base \o MemoPath)
      page == Get(params, PageKey)
      size == Get(params, PageSizeKey)
      u1 == IF Supplied(page)
            THEN SearchParamsSet(url, PageKey, NumberToString(page.s[1])) ELSE url
      u2 == IF Supplied(size)
            THEN SearchParamsSet(u1, PageSizeKey, NumberToString(size.s[1])) ELSE u1
  IN URLToString(u2)

\* { stream: flag, ...params }: a stream member of the caller wins
StreamFirst(params, flag) ==
  IF Get(params, StreamKey).t = "undefined"
  THEN SetMember(params, StreamKey, flag) ELSE params

\* { ...params, stream: flag } (lines 842-845)
WithStream(params, flag) == SetMember(params, StreamKey, flag)

\* the request of method m called with the arguments a on a client of base
\* URL base (lines 517-528, 561-571, 605-618, 662-674, 708-718, 772-781,
\* 834-846, 894-906, 998-1010, 1060-1072)
RequestOf(m, a, base) ==
  CASE m = "createMemo" -> RequestWith("POST", base \o MemoPath, WithMetadata(a.data))
    [] m = "getMemo" -> Request("GET", MemoUrl(base, a))
    [] m = "listMemos" -> Request("GET", ListUrl(base, a.data))
    [] m = "updateMemo" -> RequestWith("PATCH", MemoUrl(base, a), a.data)
    [] m = "deleteMemo" -> Request("DELETE", MemoUrl(base, a))
    [] m = "search" -> RequestWith("POST", base \o SearchPath, a.data)
    [] m = "chat" -> RequestWith("POST", base \o ChatPath, WithStream(a.data, JFalse))
    [] m = "generateDoc" ->
         RequestWith("POST", base \o GeneratePath, WithStream(a.data, JFalse))
    [] m = "streamedChat" ->
         RequestWith("POST", base \o ChatPath, WithStream(a.data, JTrue))
    [] OTHER -> RequestWith("POST", base \o GeneratePath, WithStream(a.data, JTrue))

\* the arguments after the call: createMemo writes metadata into the
\* caller's object (line 519)
ArgsAfter(m, a) ==
  IF m = "createMemo" THEN [a EXCEPT !.data = WithMetadata(a.data)] ELSE a

(***************************************************************************)
(* The responses of the server: [status, hasBody, text: the text of the    *)
(* body].  A response without a body has the empty text.                   *)
(***************************************************************************)
Statuses == {200, 204, 299, 300, 404, 500}
\* 'Forbidden', '{"ok":true}' and '{"results":[{"uuid":"u","distance":null}]}'
ForbiddenText == <<70, 111, 114, 98, 105, 100, 100, 101, 110>>
OkText == <<123, 34, 111, 107, 34, 58, 116, 114, 117, 101, 125>>
ResultsText == <<123, 34, 114, 101, 115, 117, 108, 116, 115, 34, 58, 91, 123, 34, 117, 117, 105, 100, 34, 58, 34, 117, 34, 44, 34, 100, 105, 115, 116, 97, 110, 99, 101, 34, 58, 110, 117, 108, 108, 125, 93, 125>>
Texts == {<<>>, ForbiddenText, OkText, ResultsText}
NoResp == [status |-> 0, hasBody |-> FALSE, text |-> <<>>]

\* a client that takes every status for a success
IsOkAlways(status) == TRUE

\* a client that takes every status below 400 for a success
IsOkBelow400(status) == status < 400

\* response.ok: the status is in the range 200-299
IsOk(status) == status >= 200 /\ status <= 299

\* the responses a call may get
ResponsesOf(m) ==
  {[status |-> st, hasBody |-> TRUE, text |-> t] : st \in Statuses, t \in Texts}
  \cup {[status |-> st, hasBody |-> FALSE, text |-> <<>>] : st \in Statuses}

\* a check that finds a body in every response
BodyNeverMissing(r) == FALSE

\* !response.body (line 913)
BodyMissing(r) == ~r.hasBody

\* the bytes of the body of a response: the bodies of the model come with a
\* 200, every other response that has a body has an empty one
BodiesOf(m, r) ==
  IF m \in Streamed /\ r.hasBody /\ r.status = 200 /\ r.text = <<>> THEN Streams ELSE {<<>>}

(***************************************************************************)
(* Errors: the message template, the status and the text put in it.        *)
(***************************************************************************)
NoError == [prefix |-> "", status |-> 0, detail |-> <<>>]
\* `Skald API error (${response.status}): ${errorText}`
ApiError(status, text) == [prefix |-> "Skald API error", status |-> status, detail |-> text]
\* `Invalid idType: ${idType}. Must be 'memo_uuid' or 'reference_id'.`
IdTypeError(t) == [prefix |-> "Invalid idType", status |-> 0, detail |-> t]
\* 'Response body is null'
NullBodyError == [prefix |-> "Response body is null", status |-> 0, detail |-> <<>>]
\* the rejection of fetch, and of reader.read(): the transport's own error
FetchFailure == [prefix |-> "fetch failed", status |-> 0, detail |-> <<>>]
AbortFailure == [prefix |-> "This operation was aborted", status |-> 0, detail |-> <<>>]
ReadFailure == [prefix |-> "read failed", status |-> 0, detail |-> <<>>]
\* what fetch may reject with
FetchErrors == {FetchFailure, AbortFailure}
\* the SyntaxError of response.json() on a body that is not JSON
JsonFailure == [prefix |-> "Unexpected token", status |-> 0, detail |-> <<>>]

\* a method that reports a rejection of fetch as an API error
WrapInApiError(e) == ApiError(0, e.detail)

\* await fetch(...) stands in no try block (lines 521-528): the method
\* rejects with what fetch rejected with
Rethrow(e) == e

\* a method that drops what the server sent
NoPayload(m, r) == [ok |-> TRUE, v |-> JUndefined]

\* what the method returns on a 2xx response: response.json() (line 535),
\* and nothing in deleteMemo (lines 720-724)
ResultOf(m, r) ==
  IF m = "deleteMemo" THEN [ok |-> TRUE, v |-> JUndefined] ELSE JSONParse(r.text)

(***************************************************************************)
(* The state of one call.                                                  *)
(*   method, args  the method called and its arguments, as they are now    *)
(*   given         the arguments as they were when the call was made       *)
(*   pc            "idle": no call yet; "created": the generator exists    *)
(*                 and has not run; "fetch": awaiting fetch; "read":       *)
(*                 awaiting reader.read(); "yield": suspended at yield;    *)
(*                 "settled": the promise is settled, the generator over   *)
(*   step          the consumer's latest request: "none", "pending",       *)
(*                 "value", "end" or "error"                               *)
(*   fetchCalls    the calls of fetch                                      *)
(*   resp          the response fetch resolved to                          *)
(*   request       what fetch was called with                              *)
(*   cause         what fetch rejected with                                *)
(*   outcome       how the call ended: kind "none", "value" (result: what  *)
(*                 the method returned), "end" (the sequence ended; how:   *)
(*                 "done", "eof" or "return") or "error" (err: the error   *)
(*                 thrown)                                                 *)
(*   stream, pos   the bytes of the body and how many were delivered       *)
(*   readIssued    reader.read() was called                                *)
(*   acquired      the calls of getReader(); released: of releaseLock()    *)
(*   decoder       the state of the TextDecoder                            *)
(*   buffer        `buffer`; lines: the lines the for loop has yet to visit*)
(*   yielded       the events handed to the consumer, in order             *)
(*   cutInChar     some chunk read so far ended inside a multi-byte        *)
(*                 character (a record of the input, read by no action)    *)
(* and, outside the call,                                                  *)
(*   baseUrl       this.baseUrl of the client                              *)
(*   other         the state of another call on the same client, that is   *)
(*                 not running now                                         *)
(***************************************************************************)
VARIABLES method, args, pc, step, fetchCalls, resp, outcome, stream, pos,
          readIssued, acquired, released, decoder, buffer, lines, yielded,
          cutInChar, request, cause, given, baseUrl, other

vars == <<method, args, pc, step, fetchCalls, resp, outcome, stream, pos,
          readIssued, acquired, released, decoder, buffer, lines, yielded,
          cutInChar, request, cause, given, baseUrl, other>>

call == <<method, args, given>>
net == <<fetchCalls, resp, request, cause>>
body == <<stream, pos, cutInChar>>
reader == <<readIssued, acquired, released>>
text == <<decoder, buffer, lines, yielded>>
outside == <<baseUrl, other>>

NoOutcome == [kind |-> "none", how |-> "", err |-> NoError, result |-> JUndefined]
Value(v) == [kind |-> "value", how |-> "", err |-> NoError, result |-> v]
End(how) == [kind |-> "end", how |-> how, err |-> NoError, result |-> JUndefined]
Thrown(e) == [kind |-> "error", how |-> "", err |-> e, result |-> JUndefined]

\* a call that has not begun
FreshCall ==
  [method |-> "-", args |-> NoArgs, given |-> NoArgs, pc |-> "idle", step |-> "none",
   fetchCalls |-> 0, resp |-> NoResp, request |-> NoRequest, cause |-> NoError,
   outcome |-> NoOutcome, stream |-> <<>>, pos |-> 0, cutInChar |-> FALSE,
   readIssued |-> FALSE, acquired |-> 0, released |-> 0,
   decoder |-> DecoderInit, buffer |-> <<>>, lines |-> <<>>, yielded |-> <<>>]

\* the call that is running, as a record
ThisCall ==
  [method |-> method, args |-> args, given |-> given, pc |-> pc, step |-> step,
   fetchCalls |-> fetchCalls, resp |-> resp, request |-> request, cause |-> cause,
   outcome |-> outcome, stream |-> stream, pos |-> pos, cutInChar |-> cutInChar,
   readIssued |-> readIssued, acquired |-> acquired, released |-> released,
   decoder |-> decoder, buffer |-> buffer, lines |-> lines, yielded |-> yielded]

\* a client made with the base URL b (lines 486-489), and no call yet
Constructed(b) ==
  /\ baseUrl = StripTrailingSlash(b)
  /\ method = FreshCall.method /\ args = FreshCall.args /\ given = FreshCall.given
  /\ pc = FreshCall.pc /\ step = FreshCall.step
  /\ fetchCalls = FreshCall.fetchCalls /\ resp = FreshCall.resp
  /\ request = FreshCall.request /\ cause = FreshCall.cause
  /\ outcome = FreshCall.outcome
  /\ stream = FreshCall.stream /\ pos = FreshCall.pos
  /\ cutInChar = FreshCall.cutInChar
  /\ readIssued = FreshCall.readIssued
  /\ acquired = FreshCall.acquired /\ released = FreshCall.released
  /\ decoder = FreshCall.decoder /\ buffer = FreshCall.buffer
  /\ lines = FreshCall.lines /\ yielded = FreshCall.yielded
  /\ other = FreshCall

\* new Skald(apiKey): the default base URL
Init == Constructed(DefaultBaseUrl)

(***************************************************************************)
(* A non-streaming method is called (for example getMemo, lines 556-571):  *)
(* the idType check, then fetch.                                           *)
(***************************************************************************)
CallPlain(m, a) ==
  /\ pc = "idle"
  /\ m \in Plain /\ a \in ArgsOf(m)
  /\ method' = m /\ given' = a
  /\ IF m \in IdMethods /\ ~ValidIdType(a.idType)
     THEN /\ pc' = "settled" /\ step' = "error"
          /\ outcome' = Thrown(IdTypeError(a.idType))
          /\ args' = a
          /\ UNCHANGED <<fetchCalls, request>>
     ELSE /\ pc' = "fetch" /\ step' = "pending"
          /\ outcome' = outcome
          /\ args' = ArgsAfter(m, a)
          /\ request' = RequestOf(m, a, baseUrl)
          /\ fetchCalls' = fetchCalls + 1
  /\ UNCHANGED <<outside, resp, cause, body, reader, text>>

\* a method that calls fetch before it returns its generator
CallStreamedEager(m, a) ==
  /\ pc = "idle"
  /\ m \in Streamed /\ a \in ArgsOf(m)
  /\ method' = m /\ args' = a /\ given' = a
  /\ pc' = "fetch"
  /\ request' = RequestOf(m, a, baseUrl)
  /\ fetchCalls' = fetchCalls + 1
  /\ UNCHANGED <<outside, step, resp, cause, outcome, body, reader, text>>

(***************************************************************************)
(* streamedChat or streamedGenerateDoc is called (lines 891, 1057): an     *)
(* async generator function returns its generator and runs nothing.        *)
(***************************************************************************)
CallStreamed(m, a) ==
  /\ pc = "idle"
  /\ m \in Streamed /\ a \in ArgsOf(m)
  /\ method' = m /\ args' = a /\ given' = a
  /\ pc' = "created"
  /\ UNCHANGED <<outside, step, net, outcome, body, reader, text>>

(***************************************************************************)
(* The first next() of the consumer starts the body: fetch (line 896).     *)
(***************************************************************************)
PullFirst ==
  /\ pc = "created"
  /\ pc' = "fetch" /\ step' = "pending"
  /\ request' = RequestOf(method, args, baseUrl)
  /\ fetchCalls' = fetchCalls + 1
  /\ UNCHANGED <<outside, call, resp, cause, outcome, body, reader, text>>

\* a loop that issues the next read while an event waits for the consumer
RunLoopAhead(ls) ==
  LET y == NextYield(ls)
  IN /\ lines' = y.rest
     /\ yielded' = IF y.found THEN Append(yielded, y.ev) ELSE yielded
     /\ pc' = "read"
     /\ step' = IF y.found THEN "value" ELSE "pending"

\* the for loop goes on over ls, to the next yield or to the next read
RunLoop(ls) ==
  LET y == NextYield(ls)
  IN /\ lines' = y.rest
     /\ yielded' = IF y.found THEN Append(yielded, y.ev) ELSE yielded
     /\ pc' = IF y.found THEN "yield" ELSE "read"
     /\ step' = IF y.found THEN "value" ELSE "pending"

(***************************************************************************)
(* fetch resolves.  Lines 530-535 and their copies in the other methods;   *)
(* lines 908-923 in the streaming methods: the status, the body, then      *)
(* getReader() and the first read.                                         *)
(***************************************************************************)
FetchResolves(r, b) ==
  /\ pc = "fetch"
  /\ r \in ResponsesOf(method) /\ b \in BodiesOf(method, r)
  /\ resp' = r
  /\ IF ~IsOk(r.status)
     THEN /\ pc' = "settled" /\ step' = "error"
          /\ outcome' = Thrown(ApiError(r.status, r.text))
          /\ UNCHANGED <<body, reader>>
     ELSE IF method \in Plain
     THEN LET res == ResultOf(method, r)
          IN /\ pc' = "settled"
             /\ step' = IF res.ok THEN "value" ELSE "error"
             /\ outcome' = IF res.ok THEN Value(res.v) ELSE Thrown(JsonFailure)
             /\ UNCHANGED <<body, reader>>
     ELSE IF BodyMissing(r)
     THEN /\ pc' = "settled" /\ step' = "error"
          /\ outcome' = Thrown(NullBodyError)
          /\ UNCHANGED <<body, reader>>
     ELSE /\ pc' = "read" /\ step' = "pending"
          /\ outcome' = outcome
          /\ stream' = b /\ pos' = 0 /\ cutInChar' = cutInChar
          /\ acquired' = acquired + 1 /\ readIssued' = TRUE
          /\ released' = released
  /\ UNCHANGED <<outside, call, fetchCalls, request, cause, text>>

\* fetch rejects: the error leaves the method as it is
FetchRejects(e) ==
  /\ pc = "fetch"
  /\ e \in FetchErrors
  /\ pc' = "settled" /\ step' = "error"
  /\ cause' = e
  /\ outcome' = Thrown(Rethrow(e))
  /\ UNCHANGED <<outside, call, fetchCalls, resp, request, body, reader, text>>

(***************************************************************************)
(* reader.read() resolves with the next n bytes (lines 923-947): decode,   *)
(* append to the buffer, split, keep the last fragment, run the loop.      *)
(* A chunk holds up to MaxChunk of the bytes not yet delivered, or all of  *)
(* them.  When the loop yields nothing the next read is issued at once.    *)
(***************************************************************************)
ReadChunk(n) ==
  /\ pc = "read"
  /\ n \in 0..(Len(stream) - pos)
  /\ n <= MaxChunk \/ n = Len(stream) - pos
  /\ LET d == DecodeChunk(decoder, SubSeq(stream, pos + 1, pos + n))
         segs == Split(buffer \o d.chars)
     IN /\ decoder' = d.st
        /\ buffer' = Retain(segs)
        /\ RunLoop(Front(segs))
  /\ pos' = pos + n
  /\ cutInChar' = (cutInChar \/ decoder'.needed > 0)
  /\ UNCHANGED <<outside, call, net, outcome, stream, reader>>

\* a finally block that only streamedChat has
FinallyChatOnly == released' = IF method = "streamedChat" THEN released + 1 ELSE released

\* a finally block that releases nothing
FinallySkipped == released' = released

\* the finally block (lines 949-951)
Finally == released' = released + 1

\* a loop without `if (done) break`: the read that reports the end brings
\* no bytes, the loop handles no line, and the next read is issued
ReadEndIgnored ==
  /\ pc = "read"
  /\ pos = Len(stream)
  /\ UNCHANGED vars

\* reader.read() resolves with done: break (line 925), then finally
ReadEnd ==
  /\ pc = "read"
  /\ pos = Len(stream)
  /\ pc' = "settled" /\ step' = "end"
  /\ outcome' = End("eof")
  /\ Finally
  /\ UNCHANGED <<outside, call, net, body, readIssued, acquired, text>>

\* reader.read() rejects: the error unwinds through finally
ReadRejects ==
  /\ pc = "read"
  /\ pc' = "settled" /\ step' = "error"
  /\ outcome' = Thrown(ReadFailure)
  /\ Finally
  /\ UNCHANGED <<outside, call, net, body, readIssued, acquired, text>>

(***************************************************************************)
(* next() while the generator is suspended at yield (lines 937-944): the   *)
(* type of the event just yielded is read; done returns through finally,   *)
(* a TypeError (the event is null) is caught like a parse error, and       *)
(* otherwise the loop goes on.                                             *)
(***************************************************************************)
Last(q) == q[Len(q)]

PullNext ==
  /\ pc = "yield"
  /\ IF TypeThrows(Last(yielded))
     THEN LET y == OnCatch(lines)
          IN /\ lines' = y.rest
             /\ yielded' = IF y.found THEN Append(yielded, y.ev) ELSE yielded
             /\ pc' = IF y.found THEN "yield" ELSE "read"
             /\ step' = IF y.found THEN "value" ELSE "pending"
             /\ UNCHANGED <<outcome, released>>
     ELSE IF IsDone(Last(yielded))
     THEN /\ pc' = "settled" /\ step' = "end"
          /\ outcome' = End("done")
          /\ Finally
          /\ UNCHANGED <<lines, yielded>>
     ELSE /\ RunLoop(lines)
          /\ UNCHANGED <<outcome, released>>
  /\ UNCHANGED <<outside, call, net, body, readIssued, acquired, decoder, buffer>>

\* next() on a generator that is over: { done: true }, and nothing runs
PullOver ==
  /\ pc = "settled" /\ method \in Streamed
  /\ step' = "end"
  /\ UNCHANGED <<outside, call, pc, net, outcome, body, reader, text>>

(***************************************************************************)
(* return(): what `for await` calls when the consumer leaves the loop      *)
(* early.  A generator that has not run is over at once; one suspended at  *)
(* yield returns from there, through finally.                              *)
(***************************************************************************)
ReturnUnstarted ==
  /\ pc = "created"
  /\ pc' = "settled" /\ step' = "end"
  /\ outcome' = End("return")
  /\ UNCHANGED <<outside, call, net, body, reader, text>>

ReturnAtYield ==
  /\ pc = "yield"
  /\ pc' = "settled" /\ step' = "end"
  /\ outcome' = End("return")
  /\ Finally
  /\ UNCHANGED <<outside, call, net, body, readIssued, acquired, text>>

Next ==
  \/ \E m \in Plain : \E a \in ArgsOf(m) : CallPlain(m, a)
  \/ \E m \in Streamed : \E a \in PlainArgsOf(m) : CallStreamed(m, a)
  \/ PullFirst
  \/ \E r \in ResponsesOf(method) : \E b \in BodiesOf(method, r) : FetchResolves(r, b)
  \/ \E e \in FetchErrors : FetchRejects(e)
  \/ \E n \in 0..Len(stream) : ReadChunk(n)
  \/ ReadEnd
  \/ ReadRejects
  \/ PullNext
  \/ PullOver
  \/ ReturnUnstarted
  \/ ReturnAtYield

Spec == Init /\ [][Next]_vars


(***************************************************************************)
(* The requests alone: a client made with any of the base URLs, any method *)
(* called with any of its arguments, up to the call of fetch.              *)
(***************************************************************************)
InitRequest == \E b \in BaseUrlInputs : Constructed(b)

NextRequest ==
  \/ \E m \in Plain : \E a \in ArgsOf(m) : CallPlain(m, a)
  \/ \E m \in Streamed : \E a \in ArgsOf(m) : CallStreamed(m, a)
  \/ PullFirst

SpecRequest == InitRequest /\ [][NextRequest]_vars

(***************************************************************************)
(* Two calls on one client.  JavaScript runs one call at a time and may    *)
(* go from one to another wherever a call awaits or is suspended at a      *)
(* yield, that is between any two steps above.  reader, decoder and        *)
(* buffer are declared in the body of the method (lines 917-919), so each  *)
(* call has its own; the client, with its base URL, is the same for both.  *)
(***************************************************************************)
\* one buffer for every call of the client
SharedBuffer(c) == buffer

\* let buffer = '' (line 919): the buffer of the call c
BufferOf(c) == c.buffer

\* the other call goes on, and the call that was running waits
Switch ==
  /\ other' = ThisCall
  /\ method' = other.method /\ args' = other.args /\ given' = other.given
  /\ pc' = other.pc /\ step' = other.step
  /\ fetchCalls' = other.fetchCalls /\ resp' = other.resp
  /\ request' = other.request /\ cause' = other.cause
  /\ outcome' = other.outcome
  /\ stream' = other.stream /\ pos' = other.pos /\ cutInChar' = other.cutInChar
  /\ readIssued' = other.readIssued
  /\ acquired' = other.acquired /\ released' = other.released
  /\ decoder' = other.decoder /\ buffer' = BufferOf(other)
  /\ lines' = other.lines /\ yielded' = other.yielded
  /\ baseUrl' = baseUrl

\* the bodies of the two calls: a token and done, and null and a token
PairStreams == {JoinLines(<<TokenLine, DoneLine>>), JoinLines(<<NullLine, TokenLine>>)}
\* their responses: a stream, an API error, no body
PairResponses ==
  {[status |-> 200, hasBody |-> TRUE, text |-> <<>>],
   [status |-> 500, hasBody |-> TRUE, text |-> ForbiddenText],
   [status |-> 200, hasBody |-> FALSE, text |-> <<>>]}

NextPair ==
  \/ \E m \in Streamed : \E a \in PlainArgsOf(m) : CallStreamed(m, a)
  \/ \E a \in ArgsOf("search") : CallPlain("search", a)
  \/ PullFirst
  \/ \E r \in PairResponses :
       \E b \in BodiesOf(method, r) \cap (PairStreams \cup {<<>>}) : FetchResolves(r, b)
  \/ FetchRejects(FetchFailure)
  \/ \E n \in {MaxChunk, Len(stream) - pos} : ReadChunk(n)
  \/ ReadEnd
  \/ ReadRejects
  \/ PullNext
  \/ PullOver
  \/ ReturnUnstarted
  \/ ReturnAtYield
  \/ Switch

SpecPair == Init /\ [][NextPair]_vars

(***************************************************************************)
(* The streaming calls under a consumer that keeps pulling (`for await`    *)
(* calls next() again after every event), a fetch that settles, and a body *)
(* that reports its end once its bytes are delivered.  The bodies: an      *)
(* event after done, a null and a token, an invalid line and a fragment.   *)
(***************************************************************************)
LiveStreams ==
  {JoinLines(<<TokenLine, DoneLine, TokenLine>>),
   JoinLines(<<NullLine, TokenLine>>),
   JoinLines(<<BadLine, TokenLine>>) \o DoneLine}

FetchSettles ==
  \/ \E r \in PairResponses :
       \E b \in BodiesOf(method, r) \cap (LiveStreams \cup {<<>>}) : FetchResolves(r, b)
  \/ FetchRejects(FetchFailure)

ReadDelivers ==
  \/ \E n \in 1..MaxChunk : ReadChunk(n)
  \/ ReadEnd

NextLive ==
  \/ \E m \in Streamed : \E a \in PlainArgsOf(m) : CallStreamed(m, a)
  \/ PullFirst
  \/ FetchSettles
  \/ ReadChunk(0)
  \/ ReadDelivers
  \/ ReadRejects
  \/ PullNext
  \/ PullOver
  \/ ReturnUnstarted
  \/ ReturnAtYield

SpecLive ==
  /\ Init /\ [][NextLive]_vars
  /\ WF_vars(PullFirst) /\ WF_vars(PullNext)
  /\ WF_vars(FetchSettles) /\ WF_vars(ReadEnd)

(***************************************************************************)
(* What the claims speak of, defined from the bytes of the body alone.     *)
(***************************************************************************)
\* the whole body as text, and its newline-terminated lines
TextOf(bytes) == DecodeRange(DecoderInit, bytes, 1, Len(bytes)).chars
CompleteLines(bytes) ==
  LET segs == Split(TextOf(bytes)) IN SubSeq(segs, 1, Len(segs) - 1)
\* what follows the last newline
Unterminated(bytes) ==
  LET segs == Split(TextOf(bytes)) IN segs[Len(segs)]

HasDataPrefix(line) == Len(line) >= 6 /\ SubSeq(line, 1, 6) = DataPrefix
Payload(line) == SubSeq(line, 7, Len(line))
Parseable(line) == HasDataPrefix(line) /\ JSONParse(Payload(line)).ok
InvalidData(line) == HasDataPrefix(line) /\ ~JSONParse(Payload(line)).ok

\* an event whose type is 'done'
DoneTyped(ev) ==
  /\ ev.t = "object"
  /\ \E n \in 1..Len(ev.kv) :
       /\ ev.kv[n].k = TypeKey
       /\ ev.kv[n].v = JVal("string", DoneTag)
       /\ \A m \in (n + 1)..Len(ev.kv) : ev.kv[m].k # TypeKey

\* the events of the parseable data lines of ls, in order
RECURSIVE EventsOf(_)
EventsOf(ls) ==
  IF ls = <<>> THEN <<>>
  ELSE IF Parseable(Head(ls))
    THEN <<JSONParse(Payload(Head(ls))).v>> \o EventsOf(Tail(ls))
  ELSE EventsOf(Tail(ls))

\* evs up to and including its first done event
UpToDone(evs) ==
  LET ds == {i \in 1..Len(evs) : DoneTyped(evs[i])}
  IN IF ds = {} THEN evs
     ELSE SubSeq(evs, 1, CHOOSE i \in ds : \A j \in ds : i <= j)

RemoveAt(q, i) == SubSeq(q, 1, i - 1) \o SubSeq(q, i + 1, Len(q))
IsPrefix(p, q) == Len(p) <= Len(q) /\ SubSeq(q, 1, Len(p)) = p

\* the decoder drained by a consumer that pulls until the end, from the
\* result y of the loop on
RECURSIVE DrainFrom(_)
DrainFrom(y) ==
  IF ~y.found THEN <<>>
  ELSE <<y.ev>> \o
       (IF TypeThrows(y.ev) THEN DrainFrom(OnCatch(y.rest))
        ELSE IF IsDone(y.ev) THEN <<>>
        ELSE DrainFrom(NextYield(y.rest)))

\* the events of a session in which the first read delivers the whole body
OneChunkEvents(bytes) ==
  LET d == DecodeChunk(DecoderInit, bytes)
  IN DrainFrom(NextYield(Front(Split(d.chars))))

Streaming == method \in Streamed /\ acquired = 1
\* the sequence ended by a done event or by the end of the data
EndedByDone == pc = "settled" /\ outcome = End("done")
EndedByEof == pc = "settled" /\ outcome = End("eof")
NormalEnd == EndedByDone \/ EndedByEof

(***************************************************************************)
(* C1.  However the body is split into chunks, the events yielded are      *)
(* those yielded when the first read delivers the whole body: at every     *)
(* yield the events so far are a prefix of them, and a session that ends   *)
(* by a done event or by the end of the data has yielded exactly them.     *)
(***************************************************************************)
C1_ChunkingInvariant ==
  /\ pc = "yield" => IsPrefix(yielded, OneChunkEvents(stream))
  /\ NormalEnd => yielded = OneChunkEvents(stream)

\* a session over, one of whose chunks ended inside the character é of a
\* token line, with the token and a later event yielded
C1_Witness ==
  /\ NormalEnd /\ cutInChar
  /\ Len(yielded) >= 2

(***************************************************************************)
(* C2.  One event per parseable data line, in line order: at every yield   *)
(* and at the end, the events yielded are the first events of the          *)
(* parseable data lines received so far (none dropped, duplicated or       *)
(* reordered), and at a normal end they are all of them up to and          *)
(* including the first done event.                                         *)
(***************************************************************************)
C2_OneEventPerLine ==
  /\ (pc = "yield" \/ (pc = "settled" /\ Streaming)) =>
        IsPrefix(yielded, UpToDone(EventsOf(CompleteLines(SubSeq(stream, 1, pos)))))
  /\ NormalEnd => yielded = UpToDone(EventsOf(CompleteLines(stream)))

\* a token line and a done line, both yielded, in that order
C2_Witness ==
  /\ EndedByDone
  /\ stream = JoinLines(<<TokenLine, DoneLine>>)
  /\ Len(yielded) = 2 /\ ~DoneTyped(yielded[1]) /\ DoneTyped(yielded[2])

(***************************************************************************)
(* C3.  Once a done event has been yielded, every step of the session      *)
(* leaves the events and the bytes delivered as they are, issues no read   *)
(* and leaves the session over with the consumer's request answered by     *)
(* the end of the sequence.                                                *)
(***************************************************************************)
DoneYielded == \E i \in 1..Len(yielded) : DoneTyped(yielded[i])

C3_NothingAfterDone ==
  [][DoneYielded =>
       /\ yielded' = yielded /\ pos' = pos
       /\ pc' = "settled" /\ step' = "end"]_vars

\* ended by done while lines of the last chunk were not visited and bytes
\* of the body were not read
C3_Witness ==
  /\ EndedByDone
  /\ lines # <<>> /\ pos < Len(stream)

(***************************************************************************)
(* C4.  The reader is acquired at most once, never released before it is   *)
(* acquired nor while the session runs, never released twice, and          *)
(* released once the session is over, however it ended.                    *)
(***************************************************************************)
C4_ReleasedExactlyOnce ==
  /\ acquired <= 1 /\ released <= acquired
  /\ released = 1 => pc = "settled"
  /\ (pc = "settled" /\ acquired = 1) => released = 1

\* a session ended by a failed read after an event, the reader released
C4_Witness ==
  /\ pc = "settled" /\ outcome = Thrown(ReadFailure)
  /\ yielded # <<>> /\ acquired = 1 /\ released = 1

(***************************************************************************)
(* C5.  A data line that does not parse yields nothing and stops nothing:  *)
(* a session that ends normally has yielded what it would have yielded     *)
(* had the line not been in the body.                                      *)
(***************************************************************************)
C5_InvalidLineSkipped ==
  NormalEnd =>
    \A i \in 1..Len(CompleteLines(stream)) :
      InvalidData(CompleteLines(stream)[i]) =>
        yielded = UpToDone(EventsOf(RemoveAt(CompleteLines(stream), i)))

\* an invalid data line, then a token line, whose event was yielded
C5_Witness ==
  /\ EndedByEof
  /\ stream = JoinLines(<<BadLine, TokenLine>>)
  /\ Len(yielded) = 1

(***************************************************************************)
(* C6.  A line without the prefix `data: ` yields nothing and stops        *)
(* nothing: every event yielded is the parse of a line that has the        *)
(* prefix, and a session that ends normally has yielded what it would      *)
(* have yielded had the line not been in the body.                         *)
(***************************************************************************)
C6_OtherLinesIgnored ==
  /\ \A k \in 1..Len(yielded) :
       \E i \in 1..Len(CompleteLines(SubSeq(stream, 1, pos))) :
         LET line == CompleteLines(SubSeq(stream, 1, pos))[i]
         IN Parseable(line) /\ JSONParse(Payload(line)).v = yielded[k]
  /\ NormalEnd =>
       \A i \in 1..Len(CompleteLines(stream)) :
         ~HasDataPrefix(CompleteLines(stream)[i]) =>
           yielded = UpToDone(EventsOf(RemoveAt(CompleteLines(stream), i)))

\* an `event:` line that carries the JSON of a done event, then a token
\* line: the session went on to the end of the data and yielded the token
C6_Witness ==
  /\ EndedByEof
  /\ stream = JoinLines(<<EventLine, TokenLine>>)
  /\ Len(yielded) = 1 /\ ~DoneTyped(yielded[1])

(***************************************************************************)
(* C7.  When the data ends before a done event the sequence ends with no   *)
(* error, and what follows the last newline has yielded nothing: the       *)
(* events are those of the newline-terminated lines.                       *)
(***************************************************************************)
C7_EofEndsQuietly ==
  EndedByEof =>
    /\ step = "end" /\ outcome.err = NoError
    /\ ~DoneYielded
    /\ pos = Len(stream)
    /\ yielded = EventsOf(CompleteLines(stream))
    /\ Len(yielded) = Cardinality({i \in 1..Len(CompleteLines(stream)) :
                                     Parseable(CompleteLines(stream)[i])})

\* the data ended after an unterminated line that holds a whole done event
C7_Witness ==
  /\ EndedByEof
  /\ Parseable(Unterminated(stream))
  /\ yielded # <<>>

(***************************************************************************)
(* C8.  A streaming call whose response is 2xx and has no body fails with  *)
(* 'Response body is null' on the first pull, before anything else: one    *)
(* fetch, no reader, no read, no event, no release.                        *)
(***************************************************************************)
C8_NullBodyFails ==
  (method \in Streamed /\ resp # NoResp /\ resp.status \in 200..299 /\ ~resp.hasBody) =>
    /\ pc = "settled" /\ outcome = Thrown(NullBodyError)
    /\ fetchCalls = 1
    /\ acquired = 0 /\ ~readIssued /\ released = 0
    /\ yielded = <<>>

C8_Witness ==
  /\ method = "streamedGenerateDoc" /\ resp.status = 204 /\ ~resp.hasBody
  /\ step = "error"

(***************************************************************************)
(* C9.  A response whose status is outside 200-299 makes every method      *)
(* fail with the API error that carries that status and the text of the    *)
(* body; the call returns no result and yields no event.                   *)
(***************************************************************************)
C9_NonOkFails ==
  (resp # NoResp /\ resp.status \notin 200..299) =>
    /\ pc = "settled" /\ outcome.kind = "error"
    /\ outcome.err.prefix = "Skald API error"
    /\ outcome.err.status = resp.status
    /\ outcome.err.detail = resp.text
    /\ yielded = <<>> /\ acquired = 0

C9_Witness ==
  /\ method = "deleteMemo" /\ resp.status = 300 /\ resp.text = ForbiddenText
  /\ outcome.kind = "error"

(***************************************************************************)
(* C10.  getMemo, updateMemo and deleteMemo with an idType other than      *)
(* 'memo_uuid' and 'reference_id' fail with the invalid-idType error and   *)
(* call fetch not once, whatever the memo id and the update are.           *)
(***************************************************************************)
C10_BadIdTypeFails ==
  (method \in IdMethods /\ args.idType \notin {MemoUuid, ReferenceId}) =>
    /\ pc = "settled" /\ outcome = Thrown(IdTypeError(args.idType))
    /\ fetchCalls = 0 /\ resp = NoResp

C10_Witness ==
  /\ method = "updateMemo" /\ args.idType = <<117, 117, 105, 100>>
  /\ args.memoId = <<114, 101, 102, 47, 49>> /\ args.data \in UpdateInputs \ {EmptyObject}
  /\ outcome.kind = "error"

(***************************************************************************)
(* What the claims about requests speak of, read off the request itself.   *)
(***************************************************************************)
\* fetch was called with a request
Sent == request # NoRequest
\* the body of the request, parsed as the server parses it
BodyJson == JSONParse(request.body)
\* the names of the members of an object
Names(o) == {o.kv[i].k : i \in 1..Len(o.kv)}
\* the value a name has in an object: that of its last member of that name
Named(o, name) ==
  LET idx == {i \in 1..Len(o.kv) : o.kv[i].k = name}
  IN IF idx = {} THEN JUndefined ELSE o.kv[CHOOSE i \in idx : \A j \in idx : j <= i].v
\* the members the caller gave a value
GivenNames(o) == {k \in Names(o) : Named(o, k).t # "undefined"}
\* where the query string of a URL begins: after its first '?'
QueryStart(url) ==
  LET qs == {i \in 1..Len(url) : url[i] = 63}
  IN IF qs = {} THEN Len(url) + 1 ELSE CHOOSE i \in qs : \A j \in qs : i <= j
HasQuery(url) == QueryStart(url) <= Len(url)
UrlBeforeQuery(url) == SubSeq(url, 1, QueryStart(url) - 1)
UrlQuery(url) == SubSeq(url, QueryStart(url) + 1, Len(url))

(***************************************************************************)
(* C11: the body createMemo sends has the metadata {} when the caller gave *)
(* none and the caller's metadata otherwise, and every other member of the *)
(* payload as the caller gave it.                                          *)
(***************************************************************************)
C11_MetadataDefaulted ==
  (method = "createMemo" /\ Sent) =>
    /\ request.hasBody /\ BodyJson.ok
    /\ Named(BodyJson.v, MetadataKey) =
         IF MetadataKey \in GivenNames(given.data)
         THEN Named(given.data, MetadataKey) ELSE EmptyObject
    /\ Names(BodyJson.v) = GivenNames(given.data) \cup {MetadataKey}
    /\ \A k \in GivenNames(given.data) \ {MetadataKey} :
         Named(BodyJson.v, k) = Named(given.data, k)

\* createMemo was called without metadata and with { k: 'v' }: here the
\* latter, sent as it is
C11_Witness ==
  /\ method = "createMemo" /\ Sent
  /\ Named(given.data, MetadataKey) = SomeMetadata
  /\ Named(BodyJson.v, MetadataKey) = SomeMetadata

(***************************************************************************)
(* C12: getMemo, updateMemo and deleteMemo put the memo id in the URL as   *)
(* one percent-encoded path segment after /api/v1/memo, for every id.      *)
(***************************************************************************)
C12_IdIsOneSegment ==
  (method \in IdMethods /\ Sent) =>
    UrlBeforeQuery(request.url) =
      baseUrl \o MemoPath \o <<Slash>> \o EncodeURIComponent(given.memoId)

(***************************************************************************)
(* C13: getMemo, updateMemo and deleteMemo put id_type=reference_id in the *)
(* URL exactly when idType is 'reference_id'; with 'memo_uuid' the URL has *)
(* no query string.                                                        *)
(***************************************************************************)
C13_IdTypeQuery ==
  (method \in IdMethods /\ Sent) =>
    IF given.idType = ReferenceId
    THEN /\ HasQuery(request.url)
         /\ UrlQuery(request.url) = IdTypeKey \o <<Equals>> \o ReferenceId
    ELSE /\ given.idType = MemoUuid
         /\ \A i \in 1..Len(request.url) : request.url[i] # Question

\* deleteMemo by reference id
C13_Witness ==
  /\ method = "deleteMemo" /\ Sent
  /\ given.idType = ReferenceId
  /\ HasQuery(request.url)

(***************************************************************************)
(* C14: the stream member of the body is false for chat and generateDoc    *)
(* and true for streamedChat and streamedGenerateDoc, whatever stream      *)
(* member the caller's parameters have.                                    *)
(***************************************************************************)
C14_StreamForced ==
  (method \in {"chat", "generateDoc"} \cup Streamed /\ Sent) =>
    /\ request.hasBody /\ BodyJson.ok
    /\ Named(BodyJson.v, StreamKey) = IF method \in Streamed THEN JTrue ELSE JFalse
    /\ Cardinality({i \in 1..Len(BodyJson.v.kv) : BodyJson.v.kv[i].k = StreamKey}) = 1

\* chat called with stream: true
C14_Witness ==
  /\ method = "chat" /\ Sent
  /\ Named(given.data, StreamKey) = JTrue
  /\ Named(BodyJson.v, StreamKey) = JFalse

(***************************************************************************)
(* C15: when fetch rejects, the method fails with the error fetch rejected *)
(* with, not with an API error; nothing is returned and no event yielded.  *)
(***************************************************************************)
C15_TransportErrorUnwrapped ==
  (cause # NoError) =>
    /\ pc = "settled"
    /\ outcome.kind = "error" /\ outcome.err = cause
    /\ outcome.err.prefix # "Skald API error"
    /\ outcome.result = JUndefined
    /\ yielded = <<>> /\ acquired = 0

\* the fetch of streamedChat was aborted
C15_Witness ==
  /\ method = "streamedChat" /\ cause = AbortFailure
  /\ outcome.kind = "error"

(***************************************************************************)
(* C16: every event yielded is a StreamEvent: an object whose type is      *)
(* 'token', with a string content, or 'done'.                              *)
(***************************************************************************)
IsStreamEvent(ev) ==
  /\ ev.t = "object"
  /\ \/ Named(ev, TypeKey) = JVal("string", DoneTag)
     \/ /\ Named(ev, TypeKey) = JVal("string", <<116, 111, 107, 101, 110>>)
        /\ Named(ev, <<99, 111, 110, 116, 101, 110, 116>>).t = "string"

C16_OnlyStreamEvents == \A i \in 1..Len(yielded) : IsStreamEvent(yielded[i])

(***************************************************************************)
(* C17: the base URL the client stores does not end with '/', so that no   *)
(* request URL has a doubled slash where the path joins the base.          *)
(***************************************************************************)
C17_NoTrailingSlash ==
  /\ baseUrl # <<>> => baseUrl[Len(baseUrl)] # Slash
  /\ Sent => /\ SubSeq(request.url, 1, Len(baseUrl)) = baseUrl
             /\ request.url[Len(baseUrl) + 1] = Slash
             /\ request.url[Len(baseUrl) + 2] # Slash

(***************************************************************************)
(* C19: a non-streaming method that gets a 2xx response with the server's  *)
(* JSON payload returns that payload as it is; deleteMemo returns nothing  *)
(* on any 2xx response, one with an empty body included.                   *)
(***************************************************************************)
\* the payloads of the model, as values
OkPayload == JObj(<<Member(<<111, 107>>, JTrue)>>)
ResultsPayload ==
  JObj(<<Member(<<114, 101, 115, 117, 108, 116, 115>>,
           JArr(<<Member(<<>>, JObj(<<Member(<<117, 117, 105, 100>>, JStr(<<117>>)),
                                      Member(<<100, 105, 115, 116, 97, 110, 99, 101>>, JNull)>>))>>))>>)
PayloadOf(t) == IF t = OkText THEN OkPayload ELSE ResultsPayload

C19_PayloadUnchanged ==
  (method \in Plain /\ pc = "settled" /\ resp.status \in 200..299) =>
    IF method = "deleteMemo"
    THEN outcome.kind = "value" /\ outcome.result = JUndefined
    ELSE resp.text \in {OkText, ResultsText} =>
           outcome.kind = "value" /\ outcome.result = PayloadOf(resp.text)

\* search got a result whose distance is null
C19_Witness ==
  /\ method = "search" /\ pc = "settled" /\ resp.status = 200
  /\ resp.text = ResultsText
  /\ outcome.result = ResultsPayload

(***************************************************************************)
(* C20: listMemos puts page and page_size in the query string exactly when *)
(* the caller supplied them, each with the number supplied.                *)
(***************************************************************************)
\* name=n for a number the caller supplied, nothing otherwise
PairFor(name, v) ==
  IF v.t = "number" THEN <<name \o <<Equals>> \o NumberToString(v.s[1])>> ELSE <<>>

C20_PageParams ==
  (method = "listMemos" /\ Sent) =>
    UrlQuery(request.url) =
      Join(PairFor(PageKey, Named(given.data, PageKey))
           \o PairFor(PageSizeKey, Named(given.data, PageSizeKey)), <<Amp>>)

(***************************************************************************)
(* C18: with two calls on one client interleaved in any order, each        *)
(* streaming call yields the events of its own body, as it does alone: at  *)
(* every yield the first events of the data lines it has received, at a    *)
(* normal end all of them up to done; and it has its own reader.           *)
(***************************************************************************)
AloneSoFar(c) == UpToDone(EventsOf(CompleteLines(SubSeq(c.stream, 1, c.pos))))
AloneInAll(c) == UpToDone(EventsOf(CompleteLines(c.stream)))

C18_CallsIndependent ==
  \A c \in {ThisCall, other} :
    /\ c.method \in Streamed =>
         /\ IsPrefix(c.yielded, AloneSoFar(c))
         /\ c.acquired <= 1 /\ c.released <= c.acquired
         /\ (c.pc = "settled" /\ c.acquired = 1) => c.released = 1
    /\ (c.pc = "settled" /\ c.outcome \in {End("done"), End("eof")}) =>
         c.yielded = AloneInAll(c)
    /\ c.method \notin Streamed => c.yielded = <<>> /\ c.acquired = 0

\* two streaming calls, each between two reads with the beginning of a line
\* in its buffer, the one of a body and the other of another, and an event
\* of the other call yielded
C18_Witness ==
  /\ method \in Streamed /\ other.method \in Streamed
  /\ pc = "read" /\ other.pc = "read"
  /\ stream # other.stream
  /\ buffer # <<>> /\ other.buffer # <<>> /\ buffer # other.buffer
  /\ other.yielded # <<>>

(***************************************************************************)
(* C21: once a done event is in the consumer's hands, the reader is        *)
(* released, whether or not the consumer pulls again or returns.  While    *)
(* the generator is suspended at yield only a step of the consumer can     *)
(* follow, so the release has to have happened by then.                    *)
(***************************************************************************)
C21_ReleasedOnDone == DoneYielded => released = acquired

(***************************************************************************)
(* C22: the decoder swallows a JSON parse failure and no other error: the  *)
(* TypeError of reading the type of a null payload ends the sequence, so   *)
(* that null is the last event and no read follows it; a failed read ends  *)
(* the sequence with its error.                                            *)
(***************************************************************************)
C22_OnlyParseFailuresSwallowed ==
  /\ \A i \in 1..Len(yielded) :
       yielded[i].t = "null" => i = Len(yielded) /\ pc \in {"yield", "settled"}
  /\ (pc = "settled" /\ yielded # <<>> /\ yielded[Len(yielded)].t = "null") =>
       outcome.kind = "error" \/ outcome = End("return")

(***************************************************************************)
(* C23: no step of a call changes the base URL of the client or the        *)
(* caller's arguments, which stay as they were when the call was made.     *)
(***************************************************************************)
C23_NoSideEffect == [][baseUrl' = baseUrl /\ args' = given']_vars

(***************************************************************************)
(* C24: the events yielded come from the lines whose newline was received, *)
(* and what follows the last newline received is the buffer, untouched.    *)
(***************************************************************************)
Received == SubSeq(stream, 1, pos)

C24_FragmentKept ==
  Streaming =>
    /\ IsPrefix(yielded, EventsOf(CompleteLines(Received)))
    /\ buffer = Unterminated(Received)

\* an event is yielded while the buffer holds the beginning of a data line
C24_Witness ==
  /\ Streaming /\ pc = "yield"
  /\ buffer # <<>> /\ Len(buffer) < PrefixLen
  /\ IsPrefix(buffer, DataPrefix)

(***************************************************************************)
(* C25: a read is outstanding only while the consumer waits for an answer  *)
(* and every event of the lines received has been handed over; while an    *)
(* event waits for the consumer no read is outstanding.                    *)
(***************************************************************************)
C25_NoReadAhead ==
  method \in Streamed =>
    /\ pc = "read" =>
         /\ step = "pending" /\ readIssued /\ lines = <<>>
         /\ yielded = EventsOf(CompleteLines(Received))
    /\ step = "value" => pc = "yield"

\* a read outstanding after an event was yielded and the consumer pulled
\* again, with bytes still to come
C25_Witness ==
  /\ method \in Streamed /\ pc = "read"
  /\ yielded # <<>> /\ pos < Len(stream)

(***************************************************************************)
(* C26: a streaming call whose response is not 2xx fails at its first pull *)
(* with the API error of that status and text, body or no body, and has    *)
(* no reader, no read, no event and no release.                            *)
(***************************************************************************)
C26_StreamedApiError ==
  (method \in Streamed /\ resp # NoResp /\ resp.status \notin 200..299) =>
    /\ pc = "settled" /\ fetchCalls = 1
    /\ outcome = [kind |-> "error", how |-> "", result |-> JUndefined,
                  err |-> [prefix |-> "Skald API error", status |-> resp.status,
                           detail |-> resp.text]]
    /\ acquired = 0 /\ ~readIssued /\ released = 0
    /\ yielded = <<>> /\ stream = <<>> /\ pos = 0

\* streamedGenerateDoc got a 500 without a body
C26_Witness ==
  /\ method = "streamedGenerateDoc" /\ resp.status = 500 /\ ~resp.hasBody
  /\ pc = "settled"

(***************************************************************************)
(* C28: the call of a streaming method sends nothing: the request goes out *)
(* at the first pull, once per sequence, and a sequence that is not pulled *)
(* sends no request and has no reader.                                     *)
(***************************************************************************)
C28_RequestOnFirstPull ==
  method \in Streamed =>
    /\ step = "none" => fetchCalls = 0 /\ request = NoRequest
    /\ fetchCalls = 0 =>
         /\ acquired = 0 /\ pc \in {"created", "settled"}
         /\ pc = "settled" => outcome = End("return")
    /\ fetchCalls <= 1
    /\ pc \in {"fetch", "read", "yield"} => fetchCalls = 1 /\ Sent

\* two events pulled, one request
C28_Witness ==
  /\ method \in Streamed /\ pc = "yield"
  /\ Len(yielded) >= 2 /\ fetchCalls = 1

(***************************************************************************)
(* C30: the request of getMemo, updateMemo and deleteMemo goes to          *)
(* /api/v1/memo/<segment>, one segment that is not empty, for every id.    *)
(***************************************************************************)
C30_OneSegmentAfterMemo ==
  (method \in IdMethods /\ Sent) =>
    LET path == UrlBeforeQuery(request.url)
        stem == baseUrl \o MemoPath \o <<Slash>>
    IN /\ Len(path) > Len(stem)
       /\ SubSeq(path, 1, Len(stem)) = stem
       /\ \A i \in (Len(stem) + 1)..Len(path) : path[i] # Slash

(***************************************************************************)
(* C27: under a consumer that keeps pulling, if no read waits for ever for  *)
(* bytes that the body has yet to deliver, a streaming call comes to its   *)
(* end; and once over it stays over: a later pull yields no event, issues  *)
(* no request and no read, and releases nothing.                           *)
(***************************************************************************)
Over == method \in Streamed /\ pc = "settled"

BodyDelivers == []<>(pc # "read" \/ pos = Len(stream))

C27_TerminatesAndStaysOver ==
  /\ BodyDelivers => ((method \in Streamed /\ pc = "created") ~> Over)
  /\ [][Over => /\ pc' = "settled" /\ step' \in {step, "end"}
                /\ yielded' = yielded /\ outcome' = outcome
                /\ fetchCalls' = fetchCalls /\ pos' = pos
                /\ readIssued' = readIssued /\ released' = released]_vars

\* the consumer pulled again after the end of a sequence of two events
C27_Witness ==
  /\ Over /\ outcome = End("eof") /\ step = "end"
  /\ Len(yielded) >= 2 /\ released = 1

(***************************************************************************)
(* C29: a streamedChat and a streamedGenerateDoc that got the same         *)
(* response, the same bytes of the same body and the same steps of their   *)
(* consumers (as many events pulled, the same last step, the same way to   *)
(* the end) are in the same state: the same events, the same outcome, the  *)
(* same reads, reader and release, the same text held back.                *)
(***************************************************************************)
SameRun ==
  /\ method \in Streamed /\ other.method \in Streamed /\ method # other.method
  /\ resp = other.resp /\ cause = other.cause
  /\ stream = other.stream /\ pos = other.pos
  /\ pc = other.pc /\ step = other.step
  /\ Len(yielded) = Len(other.yielded)
  /\ outcome.kind = other.outcome.kind /\ outcome.how = other.outcome.how

====
